---- MODULE Spec2Model ----
(***************************************************************************)
(* Retrieval-and-answer pipeline of the SIIT FAQ assistant                 *)
(* (src/query_data.py, called from src/chatbot_app.py).                    *)
(*                                                                         *)
(* Text is a sequence of tokens: a word or a punctuation mark is one       *)
(* token, so Python's substring test `a in b` is "a is a contiguous run    *)
(* of tokens of b".  TLC strings are ASCII, so the Thai trigger words are   *)
(* written in transliteration with the prefix th_, the bullet U+2022 is    *)
(* the token "BULLET" and the separator U+203A the token "RAQUO".          *)
(* A Thai word that contains another trigger is split at the boundary:     *)
(* "long-thabian" (register) is <<"th_long", "th_thabian">> and contains   *)
(* "thabian" (registry), as the Thai strings do.                           *)
(***************************************************************************)
EXTENDS Integers, Sequences, FiniteSets

VARIABLES
    corpus,        \* the documents of the Chroma collection, in insertion order
    score,         \* relevance score (hundredths) of corpus[i] for the query
    lex_rev,       \* TRUE when BM25 ranks the corpus in reverse insertion order
    query_text,    \* run_query argument: the raw question
    k,             \* run_query argument
    min_score,     \* run_query argument (hundredths)
    use_bm25,      \* run_query argument
    reply_lang,    \* run_query argument
    pc,            \* position of the request
    retriever,     \* what build_retriever returned: "vector" | "ensemble"
    q,             \* the expanded query
    results,       \* vector-only mode: list of [doc, score]
    docs,          \* the retrieved documents
    search_calls,  \* calls of similarity_search_with_scores
    model_calls,   \* calls of model.invoke
    prompt,        \* the prompt handed to the model
    resp,          \* the model's response content
    stdout,        \* what run_query printed
    failure,       \* the external call that raised, "none" if none did
    rendered,      \* how the front-end displayed the outcome
    src_md,        \* result of format_sources
    secrets,       \* st.secrets["OPENAI_API_KEY"], "none" if there is none
    dotenv,        \* OPENAI_API_KEY of the local .env file, "none" if none
    exported,      \* OPENAI_API_KEY the process was started with, "none" if none
    environ,       \* os.environ["OPENAI_API_KEY"] now, "none" if unset
    session_state, \* st.session_state["OPENAI_API_KEY"], "none" if unset
    pasted,        \* content of the sidebar's key field, "none" if empty
    resolved_key   \* what resolve_openai_key returned in the last script run

vars == <<corpus, score, lex_rev, query_text, k, min_score, use_bm25,
          reply_lang, pc, retriever, q, results, docs, search_calls,
          model_calls, prompt, resp, stdout, failure, rendered, src_md,
          secrets, dotenv, exported, environ, session_state, pasted,
          resolved_key>>

(***************************************************************************)
(* Bounds of the model.                                                    *)
(***************************************************************************)
MaxPhrases == 2     \* phrases per question
MaxCorpus == 2      \* documents in the collection
MaxK == 2           \* largest k
MaxDocs == 3        \* documents handed to format_sources

(***************************************************************************)
(* Text helpers (Python str operations on token sequences).                *)
(***************************************************************************)
\* str.lower() on one token
LowerToken(t) ==
    CASE t = "Transcript" -> "transcript"
      [] t = "Certificate" -> "certificate"
      [] t = "Power" -> "power"
      [] t = "Attorney" -> "attorney"
      [] t = "ID" -> "id"
      [] t = "English" -> "english"
      [] t = "How" -> "how"
      [] OTHER -> t

\* str.lower()
Lower(s) == [i \in 1..Len(s) |-> LowerToken(s[i])]

\* `sub in s`
Contains(sub, s) ==
    \E i \in 0..(Len(s) - Len(sub)) : SubSeq(s, i + 1, i + Len(sub)) = sub

\* sep.join(parts)
RECURSIVE Join(_, _)
Join(parts, sep) ==
    IF parts = <<>> THEN <<>>
    ELSE IF Len(parts) = 1 THEN parts[1]
    ELSE parts[1] \o sep \o Join(Tail(parts), sep)

Whitespace == {" ", "\n"}

\* str.rstrip()
RECURSIVE RStrip(_)
RStrip(s) ==
    IF s # <<>> /\ s[Len(s)] \in Whitespace
    THEN RStrip(SubSeq(s, 1, Len(s) - 1))
    ELSE s

\* str.lstrip()
RECURSIVE LStrip(_)
LStrip(s) ==
    IF s # <<>> /\ s[1] \in Whitespace THEN LStrip(Tail(s)) ELSE s

\* str.strip()
Strip(s) == LStrip(RStrip(s))

(***************************************************************************)
(* expand_query                                                            *)
(***************************************************************************)
\* the dict th_map, in declaration order
th_map == <<
    [th |-> <<"th_baimopamnat">>,          en |-> <<"Power", "of", "Attorney">>],
    [th |-> <<"th_bat", "th_nisit">>,      en |-> <<"student", "card">>],
    [th |-> <<"th_naksueksa">>,            en |-> <<"student">>],
    [th |-> <<"th_tham", "th_bat">>,       en |-> <<"student", "card">>],
    [th |-> <<"th_long", "th_thabian">>,   en |-> <<"registration">>],
    [th |-> <<"th_prokraem">>,             en |-> <<"program", "(", "major", ")">>],
    [th |-> <<"th_phonkhanaen_angkrit">>,  en |-> <<"English", "score">>],
    [th |-> <<"th_thabian">>,              en |-> <<"registrar">>] >>

\* the three English wording rules
EnglishExpansions(query) ==
    LET lq == Lower(query) IN
    (IF Contains(<<"transcript">>, lq) /\ ~Contains(<<"certificate">>, lq)
       THEN << <<"Transcript", "/", "Certificate">> >> ELSE <<>>)
    \o (IF Contains(<<"power", "of", "attorney">>, lq)
       THEN << <<"Power", "of", "Attorney", "form">> >> ELSE <<>>)
    \o (IF Contains(<<"student", "card">>, lq)
       THEN << <<"student", "card", "/", "citizen", "ID", "/", "passport">> >>
       ELSE <<>>)

\* the loop over th_map.items(), from entry i on
RECURSIVE ThaiExpansions(_, _)
ThaiExpansions(query, i) ==
    IF i > Len(th_map) THEN <<>>
    ELSE (IF Contains(th_map[i].th, query)
             /\ ~Contains(Lower(th_map[i].en), Lower(query))
          THEN << th_map[i].en >> ELSE <<>>)
         \o ThaiExpansions(query, i + 1)

expand_query(query) ==
    LET expansions == EnglishExpansions(query) \o ThaiExpansions(query, 1) IN
    IF expansions # <<>>
    THEN query \o <<"(">> \o Join(expansions, <<",">>) \o <<")">>
    ELSE query

(***************************************************************************)
(* Documents.  A Document is [page_content, metadata]; metadata is a       *)
(* function from keys to text, and a missing key is a key outside its      *)
(* domain.  Chunks written by create_database.split_text always carry the  *)
(* keys title, section, question and source.                               *)
(***************************************************************************)
Chunk(content, title, section, question, source) ==
    [page_content |-> content,
     metadata |-> [title |-> title, section |-> section,
                   question |-> question, source |-> source]]

\* two chunks of the same section (two ### questions) and a chunk of a file
\* without ## header
ChunkA == Chunk("c1", <<"T1">>, <<"S1">>, <<"Q1">>, <<"F1">>)
ChunkB == Chunk("c2", <<"T1">>, <<"S1">>, <<"Q2">>, <<"F1">>)
ChunkC == Chunk("c3", <<"T2">>, <<>>, <<>>, <<"F2">>)
CorpusDocs == {ChunkA, ChunkB, ChunkC}

\* documents without metadata: no key at all, and every key empty
NoMetaDoc == [page_content |-> "c4", metadata |-> [x \in {} |-> <<>>]]
EmptyMetaDoc ==
    [page_content |-> "c5",
     metadata |-> [title |-> <<>>, section |-> <<>>, source |-> <<>>]]
SourceDocs == CorpusDocs \cup {NoMetaDoc, EmptyMetaDoc}

\* md.get(key, "") or ""
md_get(md, key) == IF key \in DOMAIN md THEN md[key] ELSE <<>>

(***************************************************************************)
(* format_sources                                                          *)
(***************************************************************************)
\* f"BULLET {t} RAQUO {s} ({src})".strip()
SourceLine(d) ==
    LET md == d.metadata
        t == md_get(md, "title")
        s == md_get(md, "section")
        src == md_get(md, "source")
    IN Strip(<<"BULLET">> \o t \o <<"RAQUO">> \o s \o <<"(">> \o src \o <<")">>)

\* mutant of NotSeen: the `seen` test is dropped
NotSeen_Always(line, seen) == TRUE

\* `line not in seen`
NotSeen(line, seen) == line \notin seen

\* the loop of format_sources over the documents ds, with its two locals
RECURSIVE SourceLines(_, _, _)
SourceLines(ds, lines, seen) ==
    IF ds = <<>> THEN lines
    ELSE LET line == SourceLine(Head(ds)) IN
         IF NotSeen(line, seen)
         THEN SourceLines(Tail(ds), Append(lines, line), seen \cup {line})
         ELSE SourceLines(Tail(ds), lines, seen)

NoSourcesLine == <<"BULLET", "(no sources metadata)">>

format_sources(ds) ==
    LET lines == SourceLines(ds, <<>>, {}) IN
    IF lines # <<>> THEN Join(lines, <<"\n">>) ELSE NoSourcesLine

(***************************************************************************)
(* Retrieval: the Chroma collection, BM25 and the ensemble.                *)
(***************************************************************************)
Min(a, b) == IF a < b THEN a ELSE b

\* seq[:n]
Take(seq, n) == SubSeq(seq, 1, Min(n, Len(seq)))

Reverse(seq) == [i \in 1..Len(seq) |-> seq[Len(seq) + 1 - i]]

\* x put into the descending sequence `sorted` behind every element whose
\* key is not smaller
InsertDesc(sorted, x, keyOf) ==
    LET p == Cardinality({i \in 1..Len(sorted) : keyOf[sorted[i]] >= keyOf[x]})
    IN SubSeq(sorted, 1, p) \o <<x>> \o SubSeq(sorted, p + 1, Len(sorted))

\* sorted(seq, key=keyOf, reverse=True): descending and stable
RECURSIVE SortDesc(_, _)
SortDesc(seq, keyOf) ==
    IF seq = <<>> THEN <<>>
    ELSE InsertDesc(SortDesc(SubSeq(seq, 1, Len(seq) - 1), keyOf),
                    seq[Len(seq)], keyOf)

\* db.similarity_search_with_relevance_scores(query, k=k): the kk most
\* relevant documents with their scores, best first, ties in insertion order
similarity_search_with_scores(c, sc, kk) ==
    LET order == Take(SortDesc([i \in 1..Len(c) |-> i], sc), kk)
    IN [j \in 1..Len(order) |-> <<c[order[j]], sc[order[j]]>>]

\* vector_retriever.invoke(q)
vector_invoke(c, sc, kk) ==
    LET r == similarity_search_with_scores(c, sc, kk)
    IN [j \in 1..Len(r) |-> r[j][1]]

\* db.get(include=["metadatas", "documents"]) turned into Documents
get_all_documents_from_db(c) ==
    [i \in 1..Len(c) |->
        [page_content |-> c[i].page_content, metadata |-> c[i].metadata]]

\* bm25.invoke(q) with bm25.k = kk
bm25_invoke(c, rev, kk) ==
    LET all == get_all_documents_from_db(c)
    IN Take(IF rev THEN Reverse(all) ELSE all, kk)

\* mutant of build_retriever: the lexical flag is ignored
build_retriever_VectorOnly(c, bm25) == "vector"

\* build_retriever: which retriever object the request works with
build_retriever(c, bm25) ==
    IF ~bm25 THEN "vector"
    ELSE IF get_all_documents_from_db(c) = <<>> THEN "vector"
    ELSE "ensemble"

\* the weights of EnsembleRetriever(retrievers=[vector, bm25]), in tenths
Weights == <<6, 4>>

\* the product of (rank + 60) over the ranks 1..n: the common denominator of
\* the reciprocal ranks
RECURSIVE RankProduct(_)
RankProduct(n) == IF n = 0 THEN 1 ELSE (n + 60) * RankProduct(n - 1)

\* the sum of weight / (rank + 60) over the places of `list`, counted from
\* `rank`, that hold `content`; scaled by `scale` to stay in the integers
RECURSIVE ListScore(_, _, _, _, _)
ListScore(list, content, weight, rank, scale) ==
    IF list = <<>> THEN 0
    ELSE (IF Head(list).page_content = content
          THEN weight * (scale \div (rank + 60)) ELSE 0)
         + ListScore(Tail(list), content, weight, rank + 1, scale)

\* mutant of UniqueByContent: every document is kept
UniqueByContent_KeepAll(ds, seenContent) == ds

\* unique_by_key(all_docs, page_content): the first document of each content
RECURSIVE UniqueByContent(_, _)
UniqueByContent(ds, seenContent) ==
    IF ds = <<>> THEN <<>>
    ELSE IF Head(ds).page_content \in seenContent
         THEN UniqueByContent(Tail(ds), seenContent)
         ELSE <<Head(ds)>>
              \o UniqueByContent(Tail(ds), seenContent \cup {Head(ds).page_content})

\* EnsembleRetriever.invoke(q): the library's weighted reciprocal rank fusion
\* of the two ranked lists: a document scores weight / (rank + 60) in each
\* list, documents are unique by page_content, best combined score first
ensemble_invoke(c, sc, rev, kk) ==
    LET vec == vector_invoke(c, sc, kk)
        lex == bm25_invoke(c, rev, kk)
        scale == RankProduct(kk)
        stored == {c[i] : i \in 1..Len(c)}
        rrf_score == [x \in {d.page_content : d \in stored} |->
                         ListScore(vec, x, Weights[1], 1, scale)
                         + ListScore(lex, x, Weights[2], 1, scale)]
        keyOf == [d \in stored |-> rrf_score[d.page_content]]
    IN SortDesc(UniqueByContent(vec \o lex, {}), keyOf)

(***************************************************************************)
(* Language helpers                                                        *)
(***************************************************************************)
\* the tokens with a character in U+0E00..U+0E7F
ThaiTokens == {"th_baimopamnat", "th_bat", "th_nisit", "th_naksueksa",
               "th_tham", "th_long", "th_thabian", "th_prokraem",
               "th_phonkhanaen_angkrit", "th_hai"}

\* mutant of is_thai: re.match instead of re.search, only the first character
\* is looked at
is_thai_Match(text) == text # <<>> /\ text[1] \in ThaiTokens

\* bool(THAI_CHAR_RE.search(text or ""))
is_thai(text) == \E i \in 1..Len(text) : text[i] \in ThaiTokens

make_lang_instruction(lang, question) ==
    IF lang = "th" THEN "Reply in Thai."
    ELSE IF lang = "en" THEN "Reply in English."
    ELSE IF is_thai(question) THEN "Reply in Thai." ELSE "Reply in English."

(***************************************************************************)
(* run_query                                                               *)
(***************************************************************************)
SENTINEL == "Ask CPE/DE Secretary for more information"

DEFAULT_MIN_SCORE == 55

\* print(text)
print_line(text) == text \o <<"\n">>

\* mutant of Rejected: only an empty result list is rejected
Rejected_EmptyOnly(res, ms) == res = <<>>

\* `not results or results[0][1] < min_score`
Rejected(res, ms) == res = <<>> \/ res[1][2] < ms

\* mutant of ShouldRetry: the retry is made for every question
ShouldRetry_Always(expanded, raw) == TRUE

\* `q != query_text`
ShouldRetry(expanded, raw) == expanded # raw

\* "\n\n---\n\n".join([d.page_content for d in docs])
ContextText(ds) ==
    Join([i \in 1..Len(ds) |-> <<ds[i].page_content>>],
         <<"\n", "\n", "---", "\n", "\n">>)

\* mutant of EnsureSources: the answer is printed as the model gave it
EnsureSources_AsIs(answer, src) == answer

\* step 6 of run_query
EnsureSources(answer, src) ==
    IF ~Contains(<<"**Sources:**">>, answer)
    THEN RStrip(answer) \o <<"\n", "\n", "**Sources:**", "\n">> \o src
    ELSE answer

(***************************************************************************)
(* Inputs                                                                  *)
(***************************************************************************)
\* sequences over S of length at most n
SeqsUpTo(S, n) == UNION {[1..m -> S] : m \in 0..n}

\* the words a question is made of: every trigger, the hints that silence a
\* trigger, and a word that triggers nothing
Phrases == {<<"how">>, <<"transcript">>, <<"Certificate">>,
            <<"power", "of", "attorney">>, <<"student", "card">>,
            <<"student">>, <<"registrar">>} \cup {th_map[i].th : i \in 1..Len(th_map)}

RECURSIVE Flatten(_)
Flatten(parts) == IF parts = <<>> THEN <<>> ELSE Head(parts) \o Flatten(Tail(parts))

Questions == {Flatten(ps) : ps \in SeqsUpTo(Phrases, MaxPhrases)} \ {<<>>}

\* the questions of the requests: no trigger, an English trigger, Thai triggers,
\* an English trigger followed by a Thai word
RunQuestions == {<<"how">>, <<"transcript">>,
                 <<"th_tham", "th_bat", "th_naksueksa", "th_hai">>,
                 <<"transcript", "th_hai">>}

Scores == {40, 70}
MinScores == {0, DEFAULT_MIN_SCORE}
ReplyLangs == {"auto", "th", "en"}

\* resp.content: the sentinel alone, an answer that ends in a newline and has no
\* Sources section, an answer with its own Sources section
Responses == { <<SENTINEL>>,
               <<"**Answer:**", "text", "\n">>,
               <<"**Answer:**", "text", "\n", "**Sources:**", "BULLET", "cited">> }

NoPrompt == [context |-> <<>>, question |-> <<>>, lang_instruction |-> ""]

\* the request's locals before run_query has run
Fresh ==
    /\ retriever = "none"
    /\ q = <<>>
    /\ results = <<>>
    /\ docs = <<>>
    /\ search_calls = 0
    /\ model_calls = 0
    /\ prompt = NoPrompt
    /\ resp = <<>>
    /\ stdout = <<>>
    /\ failure = "none"
    /\ rendered = "none"
    /\ src_md = <<>>

\* run_query is called with a resolved key, here the one of the environment
KeyResolved ==
    /\ secrets = "none"
    /\ dotenv = "none"
    /\ exported = "sk-env"
    /\ environ = "sk-env"
    /\ session_state = "none"
    /\ pasted = "none"
    /\ resolved_key = "sk-env"

\* A request: a collection (a chunk can be stored twice, by a second
\* ingestion without --reset), its relevance scores for the query, the BM25
\* order, and the arguments of run_query.  Both searches of a request use the
\* same query q on the same collection, so one score per stored chunk decides
\* them.  The command line accepts --k 0, for which no document is returned.
Init ==
    /\ corpus \in SeqsUpTo(CorpusDocs, MaxCorpus)
    /\ score \in [1..Len(corpus) -> Scores]
    /\ lex_rev \in (IF Len(corpus) > 1 THEN BOOLEAN ELSE {FALSE})
    /\ query_text \in RunQuestions
    /\ k \in 0..MaxK
    /\ min_score \in MinScores
    /\ use_bm25 \in BOOLEAN
    /\ reply_lang \in ReplyLangs
    /\ pc = "start"
    /\ Fresh
    /\ KeyResolved

\* the credential state of the front-end, which run_query does not touch
credentials == <<secrets, dotenv, exported, environ, session_state, pasted,
          resolved_key>>

inputs == <<corpus, score, lex_rev, query_text, k, min_score, use_bm25,
            reply_lang, credentials>>

(***************************************************************************)
(* The steps of run_query, one per external call, and the front-end's      *)
(* display of the outcome.                                                 *)
(***************************************************************************)
\* mutant of Raise: the error is swallowed and reported as "no evidence"
Raise_AsSentinel(err) ==
    /\ failure' = err
    /\ pc' = "returned"
    /\ stdout' = print_line(<<SENTINEL>>)

\* an external call raises: run_query has no handler, the error leaves it
Raise(err) ==
    /\ failure' = err
    /\ pc' = "raised"
    /\ UNCHANGED stdout

\* print("Ask CPE/DE Secretary for more information"); return
EmitSentinel ==
    /\ stdout' = print_line(<<SENTINEL>>)
    /\ pc' = "returned"

\* db = get_db(chroma_path, collection)
GetDb ==
    /\ pc = "start"
    /\ pc' = "build"
    /\ UNCHANGED <<inputs, retriever, q, results, docs, search_calls,
                   model_calls, prompt, resp, stdout, failure, rendered, src_md>>

GetDbRaises ==
    /\ pc = "start"
    /\ Raise("get_db")
    /\ UNCHANGED <<inputs, retriever, q, results, docs, search_calls,
                   model_calls, prompt, resp, rendered, src_md>>

\* retriever = build_retriever(db, use_bm25=use_bm25, k=k)
BuildRetriever ==
    /\ pc = "build"
    /\ retriever' = build_retriever(corpus, use_bm25)
    /\ pc' = "expand"
    /\ UNCHANGED <<inputs, q, results, docs, search_calls, model_calls,
                   prompt, resp, stdout, failure, rendered, src_md>>

\* db.get(...) raises inside build_retriever
FetchAllRaises ==
    /\ pc = "build"
    /\ use_bm25
    /\ Raise("fetch_all")
    /\ UNCHANGED <<inputs, retriever, q, results, docs, search_calls,
                   model_calls, prompt, resp, rendered, src_md>>

\* q = expand_query(query_text)
ExpandQuery ==
    /\ pc = "expand"
    /\ q' = expand_query(query_text)
    /\ pc' = "retrieve"
    /\ UNCHANGED <<inputs, retriever, results, docs, search_calls, model_calls,
                   prompt, resp, stdout, failure, rendered, src_md>>

\* the isinstance(retriever, EnsembleRetriever) branch
EnsembleInvoke ==
    /\ pc = "retrieve"
    /\ retriever = "ensemble"
    /\ docs' = ensemble_invoke(corpus, score, lex_rev, k)
    /\ IF docs' = <<>>
       THEN EmitSentinel
       ELSE pc' = "compose" /\ UNCHANGED stdout
    /\ UNCHANGED <<inputs, retriever, q, results, search_calls, model_calls,
                   prompt, resp, failure, rendered, src_md>>

\* the else branch up to the first test of the results
FirstSearch ==
    /\ pc = "retrieve"
    /\ retriever = "vector"
    /\ results' = similarity_search_with_scores(corpus, score, k)
    /\ search_calls' = search_calls + 1
    /\ IF Rejected(results', min_score)
       THEN IF ShouldRetry(q, query_text)
            THEN pc' = "retry" /\ UNCHANGED <<stdout, docs>>
            ELSE EmitSentinel /\ UNCHANGED docs
       ELSE /\ docs' = [i \in 1..Len(results') |-> results'[i][1]]
            /\ pc' = "compose"
            /\ UNCHANGED stdout
    /\ UNCHANGED <<inputs, retriever, q, model_calls, prompt, resp, failure,
                   rendered, src_md>>

\* the second search and the second test
RetrySearch ==
    /\ pc = "retry"
    /\ results' = similarity_search_with_scores(corpus, score, k)
    /\ search_calls' = search_calls + 1
    /\ IF Rejected(results', min_score)
       THEN EmitSentinel /\ UNCHANGED docs
       ELSE /\ docs' = [i \in 1..Len(results') |-> results'[i][1]]
            /\ pc' = "compose"
            /\ UNCHANGED stdout
    /\ UNCHANGED <<inputs, retriever, q, model_calls, prompt, resp, failure,
                   rendered, src_md>>

\* retriever.invoke or similarity_search_with_scores raises
SearchRaises ==
    /\ pc \in {"retrieve", "retry"}
    /\ Raise("search")
    /\ UNCHANGED <<inputs, retriever, q, results, docs, search_calls,
                   model_calls, prompt, resp, rendered, src_md>>

\* steps 4 to 6: the prompt, the model call, the sources, the print
ModelInvoke ==
    /\ pc = "compose"
    /\ prompt' = [context |-> ContextText(docs),
                  question |-> query_text,
                  lang_instruction |-> make_lang_instruction(reply_lang, query_text)]
    /\ model_calls' = model_calls + 1
    /\ resp' \in Responses
    /\ src_md' = format_sources(docs)
    /\ stdout' = print_line(EnsureSources(resp', src_md'))
    /\ pc' = "returned"
    /\ UNCHANGED <<inputs, retriever, q, results, docs, search_calls, failure,
                   rendered>>

\* model.invoke(prompt) raises
ModelRaises ==
    /\ pc = "compose"
    /\ prompt' = [context |-> ContextText(docs),
                  question |-> query_text,
                  lang_instruction |-> make_lang_instruction(reply_lang, query_text)]
    /\ model_calls' = model_calls + 1
    /\ failure' = "model"
    /\ pc' = "raised"
    /\ UNCHANGED <<inputs, retriever, q, results, docs, search_calls, resp,
                   stdout, rendered, src_md>>

\* chatbot_app: what is shown once run_query has returned or raised
Render ==
    /\ pc \in {"returned", "raised"}
    /\ rendered' =
         IF pc = "raised" THEN "exception"
         ELSE LET output_md == Strip(stdout) IN
              IF output_md = <<>> THEN "warning"
              ELSE IF output_md = <<SENTINEL>> THEN "info"
              ELSE "markdown"
    /\ pc' = "shown"
    /\ UNCHANGED <<inputs, retriever, q, results, docs, search_calls,
                   model_calls, prompt, resp, stdout, failure, src_md>>

Next ==
    \/ GetDb
    \/ GetDbRaises
    \/ BuildRetriever
    \/ FetchAllRaises
    \/ ExpandQuery
    \/ EnsembleInvoke
    \/ FirstSearch
    \/ RetrySearch
    \/ SearchRaises
    \/ ModelInvoke
    \/ ModelRaises
    \/ Render

Spec == Init /\ [][Next]_vars

(***************************************************************************)
(* expand_query and format_sources on their own inputs.                    *)
(***************************************************************************)
NoRequest ==
    /\ corpus = <<>>
    /\ score = <<>>
    /\ lex_rev = FALSE
    /\ k = 0
    /\ min_score = DEFAULT_MIN_SCORE
    /\ use_bm25 = FALSE
    /\ reply_lang = "auto"

InitExpand ==
    /\ NoRequest
    /\ query_text \in Questions
    /\ pc = "expand"
    /\ Fresh
    /\ KeyResolved

SpecExpand == InitExpand /\ [][ExpandQuery]_vars

\* src_md = format_sources(docs)
FormatSources ==
    /\ pc = "format"
    /\ src_md' = format_sources(docs)
    /\ pc' = "formatted"
    /\ UNCHANGED <<inputs, retriever, q, results, docs, search_calls,
                   model_calls, prompt, resp, stdout, failure, rendered>>

InitSources ==
    /\ NoRequest
    /\ query_text = <<>>
    /\ pc = "format"
    /\ retriever = "none"
    /\ q = <<>>
    /\ results = <<>>
    /\ docs \in SeqsUpTo(SourceDocs, MaxDocs)
    /\ search_calls = 0
    /\ model_calls = 0
    /\ prompt = NoPrompt
    /\ resp = <<>>
    /\ stdout = <<>>
    /\ failure = "none"
    /\ rendered = "none"
    /\ src_md = <<>>
    /\ KeyResolved

SpecSources == InitSources /\ [][FormatSources]_vars

(***************************************************************************)
(* Properties                                                              *)
(***************************************************************************)
\* run_query has ended without an error
Returned == pc \in {"returned", "shown"} /\ failure = "none"

\* the retrieval step is over and no call raised
Retrieved == pc \in {"compose", "returned", "shown"} /\ failure = "none"

SentinelLine == <<SENTINEL, "\n">>

LowScore == results # <<>> /\ results[1][2] < min_score

\* C1: when retrieval evidence is absent (the ensemble returned no document;
\* in vector-only mode the final result list is empty or its top score is
\* below min_score) run_query prints exactly the sentinel and returns, and the
\* model has not been invoked; the model is invoked only with evidence.
C1_NoModelWithoutEvidence ==
    LET absent == IF retriever = "ensemble" THEN docs = <<>>
                  ELSE results = <<>> \/ LowScore
    IN /\ (Retrieved /\ absent) =>
              /\ pc # "compose"
              /\ model_calls = 0
              /\ resp = <<>>
              /\ stdout = SentinelLine
       /\ model_calls > 0 => (docs # <<>> /\ ~absent)

C1_Witness ==
    /\ Returned
    /\ retriever = "vector"
    /\ LowScore
    /\ search_calls = 2
    /\ model_calls = 0
    /\ stdout = SentinelLine

\* a vector-only request that ended in the sentinel because of a low score
LowScoreSentinel ==
    Returned /\ retriever = "vector" /\ model_calls = 0 /\ LowScore

\* C2 as stated: every vector-only request that ends in the sentinel because
\* of a low score has made exactly two search calls.
C2_AlwaysTwoSearches == LowScoreSentinel => search_calls = 2

\* C2 amended: the search is retried, once, only when expand_query changed
\* the question; a vector-only request that ends in the sentinel because of a
\* low score has made two search calls if the expanded query differs from the
\* question and one search call if it does not.
C2_RetryOnlyWhenExpanded ==
    /\ search_calls <= 2
    /\ LowScoreSentinel =>
          search_calls = (IF q # query_text THEN 2 ELSE 1)

C2_Witness == LowScoreSentinel /\ q = query_text /\ search_calls = 1

\* C3: when the sentinel is the entire answer of a request, by the
\* short-circuit or as the whole response of the model, the printed text is
\* exactly the sentinel, with no Sources footer.
C3_SentinelNeverDecorated ==
    (Returned /\ (model_calls = 0 \/ resp = <<SENTINEL>>))
        => Strip(stdout) = <<SENTINEL>>

\* C4: when the model was invoked and returned, the printed text contains
\* the marker "**Sources:**": the response is printed unchanged if it has the
\* marker, and otherwise the section built by format_sources from the
\* retrieved documents follows the response.
C4_SourcesSectionPresent ==
    (Returned /\ model_calls = 1) =>
        /\ Contains(<<"**Sources:**">>, stdout)
        /\ IF Contains(<<"**Sources:**">>, resp)
           THEN stdout = resp \o <<"\n">>
           ELSE stdout = RStrip(resp) \o <<"\n", "\n", "**Sources:**", "\n">>
                         \o format_sources(docs) \o <<"\n">>

C4_Witness ==
    /\ Returned
    /\ model_calls = 1
    /\ ~Contains(<<"**Sources:**">>, resp)
    /\ Len(docs) = 2
    /\ Contains(<<"**Sources:**", "\n", "BULLET">>, stdout)

\* what the retrieval of the request returned is empty
NothingRetrieved ==
    IF retriever = "ensemble" THEN docs = <<>> ELSE results = <<>>

\* C5: with the lexical flag on, the sentinel is emitted if and only if
\* retrieval returned no document, which min_score does not decide: it is the
\* case exactly for an empty collection or k = 0.
C5_LexicalFlagNoCutoff ==
    (use_bm25 /\ Returned) =>
        /\ (stdout = SentinelLine) <=> NothingRetrieved
        /\ NothingRetrieved <=> (corpus = <<>> \/ k = 0)

C5_Witness ==
    /\ use_bm25
    /\ Returned
    /\ corpus = <<>>
    /\ retriever = "vector"
    /\ min_score = DEFAULT_MIN_SCORE
    /\ k > 0
    /\ stdout = SentinelLine

\* C6: a retrieval call that raises ends run_query with the error: nothing
\* is printed, the model is not invoked, and the front-end shows the
\* exception; the sentinel is printed only when no call has raised and the
\* retrieval was made.
C6_FailureIsNotSentinel ==
    /\ failure \in {"get_db", "fetch_all", "search"} =>
          /\ pc \in {"raised", "shown"}
          /\ stdout = <<>>
          /\ model_calls = 0
          /\ rendered \in {"none", "exception"}
    /\ Contains(<<SENTINEL>>, stdout) =>
          /\ failure = "none"
          /\ retriever = "ensemble" \/ search_calls > 0

C6_Witness ==
    /\ failure = "search"
    /\ search_calls = 1
    /\ pc = "shown"
    /\ rendered = "exception"
    /\ stdout = <<>>

\* C7: expand_query is idempotent on its own output:
\* expand_query(expand_query(q)) = expand_query(q) for every question.
C7_ExpandIdempotent ==
    pc = "retrieve" => expand_query(q) = q

\* the identity of a document: source + title + section
Identity(d) ==
    <<md_get(d.metadata, "source"), md_get(d.metadata, "title"),
      md_get(d.metadata, "section")>>

RECURSIVE SplitLines(_)
SplitLines(text) ==
    IF \E i \in 1..Len(text) : text[i] = "\n"
    THEN LET i == CHOOSE x \in 1..Len(text) :
                      text[x] = "\n" /\ \A y \in 1..(x - 1) : text[y] # "\n"
         IN <<SubSeq(text, 1, i - 1)>> \o SplitLines(SubSeq(text, i + 1, Len(text)))
    ELSE <<text>>

\* the line "BULLET <title> RAQUO <section> (<source>)" of a document
Rendering(d) ==
    <<"BULLET">> \o md_get(d.metadata, "title") \o <<"RAQUO">>
    \o md_get(d.metadata, "section") \o <<"(">>
    \o md_get(d.metadata, "source") \o <<")">>

\* C9: the output of format_sources has exactly one line per distinct
\* rendering of the input documents, and these lines are in the order of the
\* first occurrence of their rendering in the input.
C9_DedupOrderPreserving ==
    pc = "formatted" =>
        LET out == SplitLines(src_md)
            first(r) == CHOOSE i \in 1..Len(docs) :
                            /\ Rendering(docs[i]) = r
                            /\ \A j \in 1..(i - 1) : Rendering(docs[j]) # r
            place(r) == CHOOSE a \in 1..Len(out) : out[a] = r
            renderings == {Rendering(docs[i]) : i \in 1..Len(docs)}
        IN /\ \A r \in renderings :
                 Cardinality({a \in 1..Len(out) : out[a] = r}) = 1
           /\ \A r1, r2 \in renderings :
                 first(r1) < first(r2) => place(r1) < place(r2)
           /\ docs # <<>> => Len(out) = Cardinality(renderings)

C9_Witness ==
    /\ pc = "formatted"
    /\ Len(docs) = 3
    /\ Rendering(docs[1]) = Rendering(docs[3])
    /\ Rendering(docs[1]) # Rendering(docs[2])
    /\ SplitLines(src_md) = <<Rendering(docs[1]), Rendering(docs[2])>>

\* a document has no metadata: title, section and source are missing or empty
NoMetadata(d) == Identity(d) = <<<<>>, <<>>, <<>>>>

\* C10: if no document passed to format_sources has any metadata, the result
\* is the single placeholder line.
C10_PlaceholderWhenNoMetadata ==
    (pc = "formatted" /\ \A i \in 1..Len(docs) : NoMetadata(docs[i]))
        => src_md = <<"BULLET", "(no sources metadata)">>

\* C11: the reply-language instruction of the prompt is decided by reply_lang
\* and the raw question alone: the fixed instruction for "th" and for "en",
\* and for "auto" "Reply in Thai." exactly when the raw question has a Thai
\* character; the corpus, the retrieved documents and the hints of
\* expand_query do not enter, and the prompt carries the raw question.
C11_LangFromRawQuestion ==
    model_calls > 0 =>
        /\ prompt.question = query_text
        /\ prompt.lang_instruction =
              (IF reply_lang = "th" THEN "Reply in Thai."
               ELSE IF reply_lang = "en" THEN "Reply in English."
               ELSE IF \E i \in 1..Len(query_text) : query_text[i] \in ThaiTokens
                    THEN "Reply in Thai."
                    ELSE "Reply in English.")

\* "auto", a question that starts in English and has a Thai word, expanded
\* with English hints, answered from retrieved documents
C11_Witness ==
    /\ model_calls = 1
    /\ reply_lang = "auto"
    /\ query_text = <<"transcript", "th_hai">>
    /\ q # query_text
    /\ docs # <<>>
    /\ prompt.lang_instruction = "Reply in Thai."

(***************************************************************************)
(* chatbot_app: the credential.  Streamlit runs the whole script again on  *)
(* every interaction; the key field keeps its content from run to run and  *)
(* a button is pressed only in the run its click starts.                   *)
(***************************************************************************)
SecretKeys == {"none", "sk-secret"}
DotenvKeys == {"none", "sk-dotenv"}
ExportedKeys == {"none", "sk-env"}
\* what the user can have in the key field
FieldValues == {"none", "sk-pasted", "sk-other"}

\* the text area: empty, blank, a question
TextAreas == {<<>>, <<" ">>, <<"how">>}

SampleQuestion ==
    <<"How", "do", "I", "request", "a", "SIIT", "Transcript", "/",
      "Certificate", "document", "?">>

\* read_secret(..) or os.getenv(..) or st.session_state.get(..)
resolve_openai_key(sec, env, sess) ==
    IF sec # "none" THEN sec ELSE IF env # "none" THEN env ELSE sess

\* one run of the script: the key field holds `field`, the buttons Ask, Try
\* sample and Clear session key are pressed or not, the text area holds
\* `question`
ScriptRun(field, ask, demo, clear, question) ==
    LET \* load_dotenv(override=False)
        env1 == IF environ = "none" THEN dotenv ELSE environ
        \* if pasted: session_state[..] = pasted; os.environ[..] = pasted
        sess1 == IF field # "none" THEN field ELSE session_state
        env2 == IF field # "none" THEN field ELSE env1
        \* if clear: session_state.pop(..); del os.environ[..]
        sess2 == IF clear THEN "none" ELSE sess1
        env3 == IF clear THEN "none" ELSE env2
        text == Strip(IF demo THEN SampleQuestion ELSE question)
        found == resolve_openai_key(secrets, env3, sess2)
    IN /\ pasted' = field
       /\ session_state' = sess2
       /\ IF (ask \/ demo) /\ text # <<>>
          THEN /\ resolved_key' = found
               /\ IF found # "none"
                  THEN \* os.environ[..] = key; qd.run_query(query_text=...)
                       /\ environ' = found
                       /\ pc' = "start"
                       /\ rendered' = "none"
                       /\ query_text' = text
                  ELSE \* st.error("No OpenAI API key found. ...")
                       /\ environ' = env3
                       /\ pc' = "idle"
                       /\ rendered' = "no_key_error"
                       /\ UNCHANGED query_text
          ELSE /\ resolved_key' = "none"
               /\ environ' = env3
               /\ pc' = "idle"
               /\ rendered' = (IF ask \/ demo THEN "question_warning" ELSE "none")
               /\ UNCHANGED query_text
       /\ UNCHANGED <<corpus, score, lex_rev, k, min_score, use_bm25,
                      reply_lang, retriever, q, results, docs, search_calls,
                      model_calls, prompt, resp, stdout, failure, src_md,
                      secrets, dotenv, exported>>

\* the user changes the content of the key field
EditKeyField ==
    \E field \in FieldValues \ {pasted} :
        ScriptRun(field, FALSE, FALSE, FALSE, <<>>)

ClickAsk == \E question \in TextAreas : ScriptRun(pasted, TRUE, FALSE, FALSE, question)

ClickDemo == ScriptRun(pasted, FALSE, TRUE, FALSE, <<>>)

ClickClear == ScriptRun(pasted, FALSE, FALSE, TRUE, <<>>)

\* any other widget: a run with no button pressed
ChangeSetting == ScriptRun(pasted, FALSE, FALSE, FALSE, <<>>)

InitKey ==
    /\ NoRequest
    /\ query_text = <<>>
    /\ pc = "idle"
    /\ Fresh
    /\ secrets \in SecretKeys
    /\ dotenv \in DotenvKeys
    /\ exported \in ExportedKeys
    /\ environ = exported
    /\ session_state = "none"
    /\ pasted = "none"
    /\ resolved_key = "none"

NextKey ==
    \/ EditKeyField
    \/ ClickAsk
    \/ ClickDemo
    \/ ClickClear
    \/ ChangeSetting

SpecKey == InitKey /\ [][NextKey]_vars

\* the last script run handled a question
Asked == pc = "start" \/ rendered = "no_key_error"

\* the key of the process environment: the exported variable, else the one
\* load_dotenv takes from .env
EnvironmentKey == IF exported # "none" THEN exported ELSE dotenv

\* C12: after any sequence of pasting, clearing and asking, the credential of
\* a request is the secret store's key if there is one, else the key of the
\* process environment if there is one, else the session's pasted key; a
\* request with no key from any of the three is refused and the pipeline does
\* not run.
C12_KeyPriority ==
    Asked =>
        /\ resolved_key =
              (IF secrets # "none" THEN secrets
               ELSE IF EnvironmentKey # "none" THEN EnvironmentKey
               ELSE session_state)
        /\ (resolved_key = "none") <=> (rendered = "no_key_error")
        /\ resolved_key = "none" => pc = "idle"

====
